---- MODULE Spec2Model ----
(***************************************************************************)
(* A model of playwrightmd (src/src/playwrightmd/__init__.py).             *)
(*                                                                         *)
(* Python strings are modelled as sequences of one-character strings, so   *)
(* that prefix, suffix, substring, lower-casing, joining and stripping are *)
(* computed character by character as the code computes them.              *)
(*                                                                         *)
(* Specifications:                                                         *)
(*   Spec      one invocation of main(): classify, fetch/render, convert,  *)
(*             write.                                                      *)
(*   SpecKind  the extension classifiers applied to a resource name.       *)
(*   SpecClean clean_html applied to a parsed document.                    *)
(*   SpecNorm  the whitespace clean-up pass of html_to_markdown.           *)
(*   SpecTrunc the link truncator.                                         *)
(*   SpecFetch fetch_with_playwright and render_local_html, call by call.  *)
(***************************************************************************)
EXTENDS Integers, Sequences, FiniteSets, TLC

VARIABLES
    \* ---- main() : one invocation
    pc,            \* position of main(): "start","fetch","convert","write","done"
    input_arg,     \* args.input (None or a string)
    path_exists,   \* what Path(input_arg).exists() answers
    raw,           \* args.raw
    no_js,         \* args.no_js
    selector_hit,  \* args.selector: "none", "hit" (matches) or "miss" (matches nothing)
    content_type,  \* the Content-Type header a server declares for the resource
    input_type,    \* result of detect_input_type
    source_text,   \* the text read from the file, stdin or the HTTP body
    content,       \* first component of get_html_content's result
    is_markdown,   \* second component of get_html_content's result
    output,        \* the text handed to write_output
    written,       \* what write_output wrote (NoText until it completes)
    status,        \* main()'s return value (-1 until it returns)
    message,       \* the error main() printed: "none", "timeout", "value", "other"
    ran,           \* the stages that have run in this invocation
    \* ---- the extension classifiers
    kname, kkind, kpc,
    \* ---- clean_html
    soup, selector, cleaned, cpc,
    \* ---- the normalizer
    markdown, normalized, twice, npc,
    \* ---- the link truncator
    tparts, tmax, truncated, tpc,
    \* ---- the browser steps
    fn,            \* the function running: fetch_with_playwright or render_local_html
    wait_until,    \* its wait_until argument
    wait_for,      \* whether a wait_for selector was given
    fpc,           \* the call about to be made
    held,          \* the resources that are open
    pending,       \* the exception in flight: "none", "timeout", "error"
    rendered_html, \* the local html / rendered_html
    result,        \* the value the function returned
    timed_out,     \* the calls that raised PlaywrightTimeout
    errors,        \* the calls that raised another exception
    swallowed,     \* the calls whose exception was caught and dropped
    fstatus,       \* main()'s return value when the exception reached it
    fmessage       \* the message main() printed for it

mainVars  == <<pc, input_arg, path_exists, raw, no_js, selector_hit, content_type,
               input_type,
               source_text, content, is_markdown, output, written, status, message,
               ran>>
kindVars  == <<kname, kkind, kpc>>
cleanVars == <<soup, selector, cleaned, cpc>>
normVars  == <<markdown, normalized, twice, npc>>
truncVars == <<tparts, tmax, truncated, tpc>>
fetchVars == <<fn, wait_until, wait_for, fpc, held, pending, rendered_html, result,
               timed_out, errors, swallowed, fstatus, fmessage>>
vars      == <<mainVars, kindVars, cleanVars, normVars, truncVars, fetchVars>>

\* What each group of operations leaves alone.
notMain  == <<kindVars, cleanVars, normVars, truncVars, fetchVars>>
notKind  == <<mainVars, cleanVars, normVars, truncVars, fetchVars>>
notClean == <<mainVars, kindVars, normVars, truncVars, fetchVars>>
notNorm  == <<mainVars, kindVars, cleanVars, truncVars, fetchVars>>
notTrunc == <<mainVars, kindVars, cleanVars, normVars, fetchVars>>
notFetch == <<mainVars, kindVars, cleanVars, normVars, truncVars>>

-----------------------------------------------------------------------------
(* Python values and string primitives                                     *)

\* Python's None: distinct from every string, whose elements are single characters.
None == <<"None">>

\* str.startswith(p)
StartsWith(s, p) == Len(s) >= Len(p) /\ SubSeq(s, 1, Len(p)) = p

\* str.endswith(p)
EndsWith(s, p) == Len(s) >= Len(p) /\ SubSeq(s, Len(s) - Len(p) + 1, Len(s)) = p

\* p in s (substring test)
Contains(s, p) == \E i \in 0..(Len(s) - Len(p)) : SubSeq(s, i + 1, i + Len(p)) = p

UpperCase == <<"A","B","C","D","E","F","G","H","I","J","K","L","M",
               "N","O","P","Q","R","S","T","U","V","W","X","Y","Z">>
LowerCase == <<"a","b","c","d","e","f","g","h","i","j","k","l","m",
               "n","o","p","q","r","s","t","u","v","w","x","y","z">>

LowerChar(c) ==
    IF \E i \in 1..Len(UpperCase) : UpperCase[i] = c
    THEN LowerCase[CHOOSE i \in 1..Len(UpperCase) : UpperCase[i] = c]
    ELSE c

\* str.lower()
lower(s) == [i \in 1..Len(s) |-> LowerChar(s[i])]


-----------------------------------------------------------------------------
(* The extension classifiers                                               *)

markdown_extensions ==
    { <<".","m","d">>,
      <<".","m","a","r","k","d","o","w","n">>,
      <<".","m","d","o","w","n">>,
      <<".","m","k","d","n">>,
      <<".","m","k","d">>,
      <<".","m","d","w","n">>,
      <<".","m","d","t","x","t">>,
      <<".","m","d","t","e","x","t">>,
      <<".","r","m","d">> }

\* The generic-text extensions the specification lists (section 4.1).
listed_text_extensions ==
    { <<".","t","x","t">>,
      <<".","j","s","o","n">>,
      <<".","x","m","l">>,
      <<".","y","a","m","l">>,
      <<".","y","m","l">>,
      <<".","c","s","v">>,
      <<".","t","o","m","l">>,
      <<".","i","n","i">>,
      <<".","c","f","g">>,
      <<".","c","o","n","f">>,
      <<".","l","o","g">>,
      <<".","r","d","f">>,
      <<".","n","3">>,
      <<".","t","t","l">>,
      <<".","n","t">> }

\* is_text_file is imported by the tests but is not among the source files.  Its
\* extension set is the specification's list plus ".text", which
\* tests/test_markdown_detection.py:93 requires (is_text_file("test.TEXT")).
text_extensions == listed_text_extensions \cup { <<".","t","e","x","t">> }

\* A plausible slip: the comparison forgets to lower-case the path.
is_markdown_file_case_sensitive(path) ==
    \E ext \in markdown_extensions : EndsWith(path, ext)

is_markdown_file(path) ==
    \E ext \in markdown_extensions : EndsWith(lower(path), ext)

is_text_file(path) ==
    \E ext \in text_extensions : EndsWith(lower(path), ext)

\* The substrings is_markdown_content_type looks for.
markdown_content_types ==
    { <<"m","a","r","k","d","o","w","n">>,
      <<"t","e","x","t","/","m","a","r","k","d","o","w","n">>,
      <<"t","e","x","t","/","x","-","m","a","r","k","d","o","w","n">> }

\* `not content_type` holds for None and for the empty string.
is_markdown_content_type(ct) ==
    IF ct = None \/ ct = <<>>
    THEN FALSE
    ELSE \E ctype \in markdown_content_types : Contains(lower(ct), ctype)

\* ContentKind from the resource name alone (specification, sections 3 and 4.1).
ContentKindOf(name) ==
    IF is_markdown_file(name) THEN "MARKDOWN"
    ELSE IF is_text_file(name) THEN "PLAIN_TEXT"
    ELSE "HTML"

\* str.upper(), for the letters of LowerCase
UpperChar(c) ==
    IF \E i \in 1..Len(LowerCase) : LowerCase[i] = c
    THEN UpperCase[CHOOSE i \in 1..Len(LowerCase) : LowerCase[i] = c]
    ELSE c

upper(s) == [i \in 1..Len(s) |-> UpperChar(s[i])]

\* Resource names the classifiers are applied to: a stem, an extension, in lower
\* and in upper case.
KindStems == { <<>>, <<"a">>, <<"t",".","x">> }

OtherExtensions ==
    { <<>>,
      <<".","h","t","m","l">>,
      <<".","p","d","f">>,
      <<".","m","d","x">>,
      <<".","m","d",".","b","a","k">>,
      <<"m","d">>,
      <<"t","x","t">>,
      <<".","h","t","m">> }

KindNames ==
    LET exts  == markdown_extensions \cup text_extensions \cup OtherExtensions
        plain == { stem \o ext : stem \in KindStems, ext \in exts }
    IN  plain \cup { upper(n) : n \in plain }

KindInit ==
    /\ kname \in KindNames
    /\ kkind = "unset"
    /\ kpc = "start"

KindIdle ==
    /\ kname = <<>>
    /\ kkind = "unset"
    /\ kpc = "idle"

Classify ==
    /\ UNCHANGED notKind
    /\ kpc = "start"
    /\ kkind' = ContentKindOf(kname)
    /\ kpc' = "done"
    /\ UNCHANGED kname

-----------------------------------------------------------------------------
(* main(): one invocation                                                  *)

HttpScheme  == <<"h","t","t","p",":","/","/">>
HttpsScheme == <<"h","t","t","p","s",":","/","/">>

\* A plausible slip: the domain guess is tried before the existence check.
detect_input_type_guess_first(arg, exists) ==
    IF arg = None \/ arg = <<"-">> THEN "STDIN"
    ELSE IF StartsWith(arg, HttpScheme) \/ StartsWith(arg, HttpsScheme) THEN "URL"
    ELSE IF Contains(arg, <<".">>) /\ ~StartsWith(arg, <<"/">>) THEN "URL"
    ELSE IF exists THEN "FILE"
    ELSE "ValueError"

\* exists is the answer of Path(input_arg).exists()
detect_input_type(arg, exists) ==
    IF arg = None \/ arg = <<"-">> THEN "STDIN"
    ELSE IF StartsWith(arg, HttpScheme) \/ StartsWith(arg, HttpsScheme) THEN "URL"
    ELSE IF exists THEN "FILE"
    ELSE IF Contains(arg, <<".">>) /\ ~StartsWith(arg, <<"/">>) THEN "URL"
    ELSE "ValueError"

\* The command-line arguments an invocation is started with.
MainArgs ==
    { None,
      <<"-">>,
      <<"a">>,
      <<"a",".","b">>,
      <<"a",".","m","d">>,
      <<"A",".","M","D">>,
      <<"a",".","t","x","t">>,
      <<"a",".","j","s","o","n">>,
      <<"a",".","h","t","m","l">>,
      <<"/","a">>,
      <<"/","a",".","m","d">>,
      <<"h","t","t","p","s",":","/","/","a">>,
      <<"h","t","t","p",":","/","/","a",".","m","d">>,
      <<"h","t","t","p","s",":","/","/","a",".","t","x","t">>,
      <<"h","t","t","p","s",":","/","/","a",".","h","t","m","l">> }

\* response.getheader("Content-Type"): None when the header is absent.
ContentTypes ==
    { None,
      <<>>,
      <<"t","e","x","t","/","h","t","m","l">>,
      <<"t","e","x","t","/","m","a","r","k","d","o","w","n">>,
      <<"T","E","X","T","/","M","A","R","K","D","O","W","N">>,
      <<"t","e","x","t","/","p","l","a","i","n">>,
      <<"t","e","x","t","/","p","l","a","i","n",";"," ","c","h","a","r","s","e","t","=","u","t","f","-","8">> }

\* The documents a file, standard input or a server can hold.
Documents == {"d1", "d2"}

\* A text value: document `of` after the stages `via` were applied to it.
Text(d, stages) == [of |-> d, via |-> stages]
NoText == Text("none", <<>>)

\* render_local_html / fetch_with_playwright: the page as the browser serialises it
Rendered(t) == Text(t.of, Append(t.via, "render"))

\* html_to_markdown: extractor, converter, normalizer
Converted(t) == Text(t.of, t.via \o <<"extract", "convert", "normalize">>)

MainInit ==
    /\ pc = "start"
    /\ input_arg \in MainArgs
    /\ path_exists \in BOOLEAN
    /\ raw \in BOOLEAN
    /\ no_js \in BOOLEAN
    /\ selector_hit \in {"none", "hit", "miss"}
    /\ content_type \in ContentTypes
    /\ input_type = "unset"
    /\ source_text = NoText
    /\ content = NoText
    /\ is_markdown = FALSE
    /\ output = NoText
    /\ written = NoText
    /\ status = -1
    /\ message = "none"
    /\ ran = {}

MainIdle ==
    /\ pc = "idle"
    /\ input_arg = None
    /\ path_exists = FALSE
    /\ raw = FALSE
    /\ no_js = FALSE
    /\ selector_hit = "none"
    /\ content_type = None
    /\ input_type = "unset"
    /\ source_text = NoText
    /\ content = NoText
    /\ is_markdown = FALSE
    /\ output = NoText
    /\ written = NoText
    /\ status = -1
    /\ message = "none"
    /\ ran = {}

argVars == <<input_arg, path_exists, raw, no_js, selector_hit, content_type>>

\* A plausible slip: the handler starts the invocation over instead of returning.
FailedAndRetried(msg, stages) ==
    /\ pc' = "start"
    /\ message' = msg
    /\ ran' = ran \cup stages
    /\ UNCHANGED <<argVars, input_type, source_text, content, is_markdown,
                   output, written, status>>

\* An exception reaches main's handlers: a message is printed, main returns 1.
Failed(msg, stages) ==
    /\ pc' = "done"
    /\ status' = 1
    /\ message' = msg
    /\ ran' = ran \cup stages
    /\ UNCHANGED <<argVars, input_type, source_text, content, is_markdown,
                   output, written>>

\* get_html_content returns (cont, md) after reading src.
Fetched(src, cont, md, stages) ==
    /\ pc' = "convert"
    /\ source_text' = src
    /\ content' = cont
    /\ is_markdown' = md
    /\ ran' = ran \cup stages
    /\ UNCHANGED <<argVars, input_type, output, written, status, message>>

DetectInputType ==
    /\ UNCHANGED notMain
    /\ pc = "start"
    /\ LET r == detect_input_type(input_arg, path_exists)
       IN  IF r = "ValueError"
           THEN Failed("value", {})
           ELSE /\ input_type' = r
                /\ pc' = "fetch"
                /\ UNCHANGED <<argVars, source_text, content, is_markdown,
                               output, written, status, message, ran>>

\* get_html_content adds https:// when the argument has no scheme
url ==
    IF StartsWith(input_arg, HttpScheme) \/ StartsWith(input_arg, HttpsScheme)
    THEN input_arg
    ELSE HttpsScheme \o input_arg

\* A URL with a Markdown extension: plain HTTP GET; the Content-Type is read and
\* or-ed with the extension test (line 244); line 246 reads the response after
\* the with block has closed it, which gives the empty text.
GetUrlMarkdown ==
    /\ UNCHANGED notMain
    /\ pc = "fetch"
    /\ input_type = "URL"
    /\ is_markdown_file(url)
    /\ \/ IF is_markdown_content_type(content_type) \/ is_markdown_file(url)
          THEN \E d \in Documents :
                   Fetched(Text(d, <<>>), Text(d, <<>>), TRUE, {"http"})
          ELSE Fetched(Text("empty", <<>>), Text("empty", <<>>), FALSE, {"http"})
       \/ Failed("other", {"http"})

\* Any other URL with --no-js: plain HTTP GET.
GetUrlNoJs ==
    /\ UNCHANGED notMain
    /\ pc = "fetch"
    /\ input_type = "URL"
    /\ ~is_markdown_file(url)
    /\ no_js
    /\ \/ \E d \in Documents :
            Fetched(Text(d, <<>>), Text(d, <<>>), FALSE, {"http"})
       \/ Failed("other", {"http"})

\* Any other URL: fetch_with_playwright.
GetUrlPlaywright ==
    /\ UNCHANGED notMain
    /\ pc = "fetch"
    /\ input_type = "URL"
    /\ ~is_markdown_file(url)
    /\ ~no_js
    /\ \/ \E d \in Documents :
            Fetched(Text(d, <<>>), Rendered(Text(d, <<>>)), FALSE, {"browser"})
       \/ Failed("timeout", {"browser"})
       \/ Failed("other", {"browser"})

\* A local file with a Markdown extension: read and returned as Markdown.
GetFileMarkdown ==
    /\ UNCHANGED notMain
    /\ pc = "fetch"
    /\ input_type = "FILE"
    /\ is_markdown_file(input_arg)
    /\ \/ \E d \in Documents :
            Fetched(Text(d, <<>>), Text(d, <<>>), TRUE, {"file"})
       \/ Failed("other", {"file"})

\* Any other local file: read, then rendered unless --no-js.
GetFileHtml ==
    /\ UNCHANGED notMain
    /\ pc = "fetch"
    /\ input_type = "FILE"
    /\ ~is_markdown_file(input_arg)
    /\ \/ Failed("other", {"file"})
       \/ /\ no_js
          /\ \E d \in Documents :
               Fetched(Text(d, <<>>), Text(d, <<>>), FALSE, {"file"})
       \/ /\ ~no_js
          /\ \/ \E d \in Documents :
                  Fetched(Text(d, <<>>), Rendered(Text(d, <<>>)), FALSE,
                          {"file", "browser"})
             \/ Failed("timeout", {"file", "browser"})
             \/ Failed("other", {"file", "browser"})

\* A plausible slip: standard input is rendered whether or not --no-js is given.
GetStdinAlwaysRendered ==
    /\ UNCHANGED notMain
    /\ pc = "fetch"
    /\ input_type = "STDIN"
    /\ \/ Failed("other", {"stdin"})
       \/ \E d \in Documents :
              Fetched(Text(d, <<>>), Rendered(Text(d, <<>>)), FALSE,
                      {"stdin", "browser"})
       \/ Failed("timeout", {"stdin", "browser"})
       \/ Failed("other", {"stdin", "browser"})

\* Standard input: read, then rendered unless --no-js.
GetStdin ==
    /\ UNCHANGED notMain
    /\ pc = "fetch"
    /\ input_type = "STDIN"
    /\ \/ Failed("other", {"stdin"})
       \/ /\ no_js
          /\ \E d \in Documents :
               Fetched(Text(d, <<>>), Text(d, <<>>), FALSE, {"stdin"})
       \/ /\ ~no_js
          /\ \/ \E d \in Documents :
                  Fetched(Text(d, <<>>), Rendered(Text(d, <<>>)), FALSE,
                          {"stdin", "browser"})
             \/ Failed("timeout", {"stdin", "browser"})
             \/ Failed("other", {"stdin", "browser"})

\* A plausible slip: --raw is not looked at, only the Markdown flag is.
ConvertForgettingRaw ==
    /\ UNCHANGED notMain
    /\ pc = "convert"
    /\ IF is_markdown
       THEN /\ output' = content
            /\ pc' = "write"
            /\ UNCHANGED <<argVars, input_type, source_text, content, is_markdown,
                           written, status, message, ran>>
       ELSE IF selector_hit = "miss"
       THEN Failed("value", {"extractor"})
       ELSE /\ output' = Converted(content)
            /\ ran' = ran \cup {"extractor", "converter", "normalizer"}
            /\ pc' = "write"
            /\ UNCHANGED <<argVars, input_type, source_text, content, is_markdown,
                           written, status, message>>

\* main, lines 402-408: raw and Markdown content pass through, anything else goes
\* through html_to_markdown, whose extractor raises when the selector matches nothing.
Convert ==
    /\ UNCHANGED notMain
    /\ pc = "convert"
    /\ IF raw \/ is_markdown
       THEN /\ output' = content
            /\ pc' = "write"
            /\ UNCHANGED <<argVars, input_type, source_text, content, is_markdown,
                           written, status, message, ran>>
       ELSE IF selector_hit = "miss"
       THEN Failed("value", {"extractor"})
       ELSE /\ output' = Converted(content)
            /\ ran' = ran \cup {"extractor", "converter", "normalizer"}
            /\ pc' = "write"
            /\ UNCHANGED <<argVars, input_type, source_text, content, is_markdown,
                           written, status, message>>

\* write_output, then return 0; a failing write reaches the generic handler.
WriteOutput ==
    /\ UNCHANGED notMain
    /\ pc = "write"
    /\ \/ /\ written' = output
          /\ status' = 0
          /\ pc' = "done"
          /\ ran' = ran \cup {"writer"}
          /\ UNCHANGED <<argVars, input_type, source_text, content, is_markdown,
                         output, message>>
       \/ Failed("other", {"writer"})

MainNext ==
    \/ DetectInputType
    \/ GetUrlMarkdown
    \/ GetUrlNoJs
    \/ GetUrlPlaywright
    \/ GetFileMarkdown
    \/ GetFileHtml
    \/ GetStdin
    \/ Convert
    \/ WriteOutput

-----------------------------------------------------------------------------
(* The normalizer: html_to_markdown, lines 190-202                         *)

\* The characters str.strip() and str.rstrip() remove.
Whitespace == {" ", "\t", "\n", "\r"}

RECURSIVE SplitAcc(_, _, _, _)
SplitAcc(s, i, cur, acc) ==
    IF i > Len(s) THEN Append(acc, cur)
    ELSE IF s[i] = "\n" THEN SplitAcc(s, i + 1, <<>>, Append(acc, cur))
    ELSE SplitAcc(s, i + 1, Append(cur, s[i]), acc)

\* markdown.split("\n")
Split(s) == SplitAcc(s, 1, <<>>, <<>>)

RECURSIVE rstrip(_)
rstrip(s) ==
    IF Len(s) > 0 /\ s[Len(s)] \in Whitespace
    THEN rstrip(SubSeq(s, 1, Len(s) - 1))
    ELSE s

RECURSIVE lstrip(_)
lstrip(s) ==
    IF Len(s) > 0 /\ s[1] \in Whitespace
    THEN lstrip(SubSeq(s, 2, Len(s)))
    ELSE s

\* str.strip()
strip(s) == lstrip(rstrip(s))

\* The loop of lines 195-200: i is the next line, prev_empty the flag, acc cleaned_lines.
RECURSIVE CleanLines(_, _, _, _)
CleanLines(lines, i, prev_empty, acc) ==
    IF i > Len(lines) THEN acc
    ELSE LET line     == lines[i]
             is_empty == strip(line) = <<>>
         IN  IF is_empty /\ prev_empty
             THEN CleanLines(lines, i + 1, prev_empty, acc)
             ELSE CleanLines(lines, i + 1, is_empty, Append(acc, rstrip(line)))

\* "\n".join(lines)
RECURSIVE Join(_)
Join(lines) ==
    IF Len(lines) = 0 THEN <<>>
    ELSE IF Len(lines) = 1 THEN lines[1]
    ELSE lines[1] \o <<"\n">> \o Join(Tail(lines))

\* A plausible slip: the joined text is not stripped before the line break is added.
normalize_without_strip(text) ==
    Join(CleanLines(Split(text), 1, FALSE, <<>>)) \o <<"\n">>

\* A plausible slip: blank lines are never collapsed.
normalize_without_collapse(text) ==
    LET lines == Split(text)
    IN  strip(Join([i \in 1..Len(lines) |-> rstrip(lines[i])])) \o <<"\n">>

normalize(text) ==
    strip(Join(CleanLines(Split(text), 1, FALSE, <<>>))) \o <<"\n">>

\* The texts the converter can hand to the normalizer.
MaxTextLen == 5
NormChars == {"a", "b", " ", "\n"}

RECURSIVE TextsUpTo(_)
TextsUpTo(n) ==
    IF n = 0 THEN { <<>> }
    ELSE LET shorter == TextsUpTo(n - 1)
         IN  shorter \cup { Append(t, c) : t \in { u \in shorter : Len(u) = n - 1 },
                                           c \in NormChars }

NormInit ==
    /\ markdown \in TextsUpTo(MaxTextLen)
    /\ normalized = <<>>
    /\ twice = <<>>
    /\ npc = "start"

NormIdle ==
    /\ markdown = <<>>
    /\ normalized = <<>>
    /\ twice = <<>>
    /\ npc = "idle"

\* The normalizer applied to the converter's output.
Normalize ==
    /\ UNCHANGED notNorm
    /\ npc = "start"
    /\ normalized' = normalize(markdown)
    /\ npc' = "once"
    /\ UNCHANGED <<markdown, twice>>

\* The normalizer applied to its own output.
NormalizeAgain ==
    /\ UNCHANGED notNorm
    /\ npc = "once"
    /\ twice' = normalize(normalized)
    /\ npc' = "twice"
    /\ UNCHANGED <<markdown, normalized>>

NormNext == Normalize \/ NormalizeAgain

-----------------------------------------------------------------------------
(* The extractor: clean_html                                               *)
(*                                                                         *)
(* soup is the parsed document: its nodes in document order, each with its *)
(* depth below the BeautifulSoup object (a node's subtree is the run of    *)
(* deeper nodes that follows it).  A node is an element (tag, class list,  *)
(* role attribute) or a comment (tag "#comment").  A class list is the     *)
(* sequence of the class attribute's tokens, <<>> when the attribute is    *)
(* absent; role is "" when absent.                                         *)

Node(t, c, r, d) == [tag |-> t, cls |-> c, role |-> r, depth |-> d]

\* j lies in the subtree of node i
InSubtree(doc, i, j) ==
    /\ i <= j
    /\ \A k \in (i + 1)..j : doc[k].depth > doc[i].depth

RECURSIVE KeepNodes(_, _, _)
KeepNodes(doc, keep, i) ==
    IF i > Len(doc) THEN <<>>
    ELSE (IF i \in keep THEN <<doc[i]>> ELSE <<>>) \o KeepNodes(doc, keep, i + 1)

\* for tag in found: tag.decompose() -- each found node goes with its subtree
DecomposeAll(doc, found) ==
    KeepNodes(doc,
              { j \in 1..Len(doc) : ~\E i \in found : InSubtree(doc, i, j) },
              1)

\* str(node): the node with its subtree
SubtreeOf(doc, i) ==
    KeepNodes(doc, { j \in 1..Len(doc) : InSubtree(doc, i, j) }, 1)

\* soup.find_all([...tags...])
TagIdx(doc, tags) == { i \in 1..Len(doc) : doc[i].tag \in tags }

\* find(): the first of the found nodes in document order, 0 for None
First(found) ==
    IF found = {} THEN 0
    ELSE CHOOSE i \in found : \A j \in found : i <= j

\* sep.join(items)
RECURSIVE JoinWith(_, _)
JoinWith(sep, items) ==
    IF Len(items) = 0 THEN <<>>
    ELSE IF Len(items) = 1 THEN items[1]
    ELSE items[1] \o sep \o JoinWith(sep, Tail(items))

\* " ".join(c) for a string c: Python iterates a string by its characters.
SpaceJoinString(c) == JoinWith(<<" ">>, [i \in 1..Len(c) |-> <<c[i]>>])

\* The lambda of lines 143-146 and 167-169 applied to one value c.
ClassLambda(c, patterns) ==
    /\ c # <<>>
    /\ \E p \in patterns : Contains(lower(SpaceJoinString(c)), p)

\* The values a class_ filter function is called with: BeautifulSoup hands it
\* each class token as a string and then the whole attribute value as one string,
\* never the list of tokens.
ClassFilterArguments(cls) ==
    { cls[i] : i \in 1..Len(cls) } \cup { JoinWith(<<" ">>, cls) }

\* soup.find_all(class_=lambda c: ...), within the nodes whose tag is in tags
ClassIdx(doc, tags, patterns) ==
    { i \in 1..Len(doc) :
        /\ doc[i].tag \in tags
        /\ doc[i].cls # <<>>
        /\ \E c \in ClassFilterArguments(doc[i].cls) : ClassLambda(c, patterns) }

\* soup.find_all(attrs={"role": lambda r: r in roles})
RoleIdx(doc, roles) == { i \in 1..Len(doc) : doc[i].role \in roles }

UnwantedTags     == {"script", "style", "noscript", "iframe", "svg"}
NavigationTags   == {"nav", "aside"}
HeaderFooterTags == {"header", "footer"}
SidebarRoles     == {"navigation", "complementary", "menu"}

SidebarPatterns ==
    { <<"s","i","d","e","b","a","r">>,
      <<"s","i","d","e","-","b","a","r">>,
      <<"s","i","d","e","n","a","v">>,
      <<"s","i","d","e","-","n","a","v">>,
      <<"t","o","c">>,
      <<"t","a","b","l","e","-","o","f","-","c","o","n","t","e","n","t","s">>,
      <<"m","e","n","u">>,
      <<"n","a","v","i","g","a","t","i","o","n">> }

ContentPatterns ==
    { <<"c","o","n","t","e","n","t">>,
      <<"a","r","t","i","c","l","e">>,
      <<"p","o","s","t">>,
      <<"e","n","t","r","y">>,
      <<"m","a","i","n">> }

ElementTags ==
    UnwantedTags \cup NavigationTags \cup HeaderFooterTags
        \cup {"html", "body", "main", "article", "div", "p"}

\* A plausible slip: only role=navigation is removed.
RemoveSidebarRolesNavigationOnly(doc) ==
    DecomposeAll(doc, RoleIdx(doc, {"navigation"}))

\* lines 135-136
RemoveUnwanted(doc) == DecomposeAll(doc, TagIdx(doc, UnwantedTags))
\* lines 139-140
RemoveNavigation(doc) == DecomposeAll(doc, TagIdx(doc, NavigationTags))
\* lines 143-147
RemoveSidebarClasses(doc) ==
    DecomposeAll(doc, ClassIdx(doc, ElementTags, SidebarPatterns))
\* lines 150-151
RemoveSidebarRoles(doc) == DecomposeAll(doc, RoleIdx(doc, SidebarRoles))
\* lines 154-155
RemoveHeaderFooter(doc) == DecomposeAll(doc, TagIdx(doc, HeaderFooterTags))
\* lines 159-160: comment.extract()
RemoveComments(doc) ==
    KeepNodes(doc, { i \in 1..Len(doc) : doc[i].tag # "#comment" }, 1)

\* lines 135-160 in order
Cleanup(doc) ==
    RemoveComments(RemoveHeaderFooter(RemoveSidebarRoles(
        RemoveSidebarClasses(RemoveNavigation(RemoveUnwanted(doc))))))

\* lines 163-172: the index of main_content in doc, 0 when it is the soup itself
FindMainContent(doc) ==
    LET main    == First(TagIdx(doc, {"main"}))
        article == First(TagIdx(doc, {"article"}))
        role    == First(RoleIdx(doc, {"main"}))
        div     == First(ClassIdx(doc, {"div"}, ContentPatterns))
        body    == First(TagIdx(doc, {"body"}))
    IN  IF main # 0 THEN main
        ELSE IF article # 0 THEN article
        ELSE IF role # 0 THEN role
        ELSE IF div # 0 THEN div
        ELSE body

\* A selector: kind "none" (None), "empty" (the empty string), "tag" (a type
\* selector such as article) or "class" (a class selector such as .content).
Selector(k, t, c) == [kind |-> k, tag |-> t, cls |-> c]

\* if selector:
Truthy(sel) == sel.kind \in {"tag", "class"}

SelectorMatches(sel, node) ==
    /\ node.tag # "#comment"
    /\ \/ sel.kind = "tag" /\ node.tag = sel.tag
       \/ sel.kind = "class" /\ \E i \in 1..Len(node.cls) : node.cls[i] = sel.cls

\* A plausible slip: the last match is taken instead of the first.
select_last(doc, sel) ==
    LET found == { i \in 1..Len(doc) : SelectorMatches(sel, doc[i]) }
    IN  IF found = {} THEN 0
        ELSE CHOOSE i \in found : \A j \in found : j <= i

\* soup.select_one(selector): the first match in document order, 0 for None
select_one(doc, sel) ==
    First({ i \in 1..Len(doc) : SelectorMatches(sel, doc[i]) })

\* What clean_html gives back: the markup of main_content (its nodes), or the
\* ValueError it raised.
Extracted(err, nodes) == [error |-> err, nodes |-> nodes]

clean_html(html, sel) ==
    IF Truthy(sel)
    THEN LET main_content == select_one(html, sel)
         IN  IF main_content = 0
             THEN Extracted("ValueError", <<>>)
             ELSE Extracted("none", SubtreeOf(html, main_content))
    ELSE LET cleaned_soup == Cleanup(html)
             main_content == FindMainContent(cleaned_soup)
         IN  IF main_content = 0
             THEN Extracted("none", cleaned_soup)
             ELSE Extracted("none", SubtreeOf(cleaned_soup, main_content))

\* The parsed documents clean_html is applied to: the empty document, or html > body
\* with up to MaxNodes nodes below body.
MaxNodes == 2

ClassLists ==
    { << <<"c","o","n","t","e","n","t">> >>,
      << <<"s","i","d","e","b","a","r">> >>,
      << <<"n","a","v">>, <<"M","e","n","u">> >> }

\* The nodes a document is built from (depth is set when the node is placed).
Palette ==
    { Node(t, <<>>, "", 0) :
        t \in UnwantedTags \cup NavigationTags \cup HeaderFooterTags
                \cup {"main", "article", "p", "div", "#comment"} }
    \cup { Node("div", c, "", 0) : c \in ClassLists }
    \cup { Node("div", <<>>, r, 0) : r \in SidebarRoles \cup {"main"} }

\* Nodes that hold no element or comment children.
LeafTags == {"#comment", "script", "style"}

RECURSIVE BodiesOf(_)
BodiesOf(n) ==
    IF n = 0 THEN { <<>> }
    ELSE LET shorter == BodiesOf(n - 1)
             longest == { b \in shorter : Len(b) = n - 1 }
         IN  shorter \cup
             { Append(b, [p EXCEPT !.depth = d]) :
                 b \in longest, p \in Palette, d \in 2..(n + 1) }

WellFormed(body) ==
    \A i \in 1..Len(body) :
        LET above == IF i = 1 THEN 1 ELSE body[i - 1].depth
            leaf  == i > 1 /\ body[i - 1].tag \in LeafTags
        IN  body[i].depth <= (IF leaf THEN above ELSE above + 1)

Soups ==
    { <<>> } \cup
    { <<Node("html", <<>>, "", 0), Node("body", <<>>, "", 1)>> \o b :
        b \in { x \in BodiesOf(MaxNodes) : WellFormed(x) } }

Selectors ==
    { Selector("none", "", <<>>),
      Selector("empty", "", <<>>),
      Selector("tag", "article", <<>>),
      Selector("tag", "div", <<>>),
      Selector("class", "", <<"c","o","n","t","e","n","t">>) }

NotExtracted == Extracted("unset", <<>>)

CleanInit ==
    /\ soup \in Soups
    /\ selector \in Selectors
    /\ cleaned = NotExtracted
    /\ cpc = "start"

CleanIdle ==
    /\ soup = <<>>
    /\ selector = Selector("none", "", <<>>)
    /\ cleaned = NotExtracted
    /\ cpc = "idle"

\* clean_html(html, selector)
Extract ==
    /\ UNCHANGED notClean
    /\ cpc = "start"
    /\ cleaned' = clean_html(soup, selector)
    /\ cpc' = "done"
    /\ UNCHANGED <<soup, selector>>

-----------------------------------------------------------------------------
(* The link truncator                                                      *)

(*                                                                         *)
(* truncate_markdown_links is imported by the tests but is not among the   *)
(* source files; it is modelled from section 4.5 of the specification and  *)
(* the cases of tests/test_main_function.py:246-273: a left-to-right scan  *)
(* for [text](url) and [text](url "title"), the URL being a run of         *)
(* characters other than ")" and whitespace.                               *)

\* The single character U+2026.
Ellipsis == "..."

\* The first index k >= i with s[k] = c, 0 when there is none.
RECURSIVE IndexFrom(_, _, _)
IndexFrom(s, i, c) ==
    IF i > Len(s) THEN 0
    ELSE IF s[i] = c THEN i
    ELSE IndexFrom(s, i + 1, c)

\* The last index of the longest run of characters of `chars` that starts at i
\* (i - 1 when s[i] is not one of them).
RECURSIVE RunEnd(_, _, _)
RunEnd(s, i, chars) ==
    IF i <= Len(s) /\ s[i] \in chars THEN RunEnd(s, i + 1, chars) ELSE i - 1

\* The last index of the longest run of characters outside `chars` that starts at i.
RECURSIVE RunEndOutside(_, _, _)
RunEndOutside(s, i, chars) ==
    IF i <= Len(s) /\ s[i] \notin chars THEN RunEndOutside(s, i + 1, chars) ELSE i - 1

NoLink == [ok |-> FALSE, urlFrom |-> 0, urlTo |-> 0, end |-> 0]
Link(from, to, end) == [ok |-> TRUE, urlFrom |-> from, urlTo |-> to, end |-> end]

\* The inline link that starts at s[i], if one does.
MatchLink(s, i) ==
    LET close == IndexFrom(s, i + 1, "]")
    IN  IF s[i] # "[" \/ close = 0 \/ close + 1 > Len(s) THEN NoLink
        ELSE IF s[close + 1] # "(" THEN NoLink
        ELSE LET from  == close + 2
                 to    == RunEndOutside(s, from, Whitespace \cup {")"})
                 gap   == RunEnd(s, to + 1, Whitespace)
                 quote == IF gap + 1 <= Len(s) /\ s[gap + 1] = "\""
                          THEN IndexFrom(s, gap + 2, "\"") ELSE 0
             IN  IF to < from THEN NoLink
                 ELSE IF to + 1 <= Len(s) /\ s[to + 1] = ")" THEN Link(from, to, to + 1)
                 ELSE IF gap > to /\ quote # 0 /\ quote + 1 <= Len(s)
                         /\ s[quote + 1] = ")"
                 THEN Link(from, to, quote + 1)
                 ELSE NoLink

\* A plausible slip: the URL is cut to max_length characters before the ellipsis.
TruncateUrlOffByOne(link_url, max_length) ==
    IF Len(link_url) > max_length
    THEN SubSeq(link_url, 1, max_length) \o <<Ellipsis>>
    ELSE link_url

TruncateUrl(link_url, max_length) ==
    IF Len(link_url) > max_length
    THEN SubSeq(link_url, 1, max_length - 1) \o <<Ellipsis>>
    ELSE link_url

RECURSIVE TruncateFrom(_, _, _)
TruncateFrom(s, i, max_length) ==
    IF i > Len(s) THEN <<>>
    ELSE LET m == MatchLink(s, i)
         IN  IF m.ok
             THEN SubSeq(s, i, m.urlFrom - 1)
                    \o TruncateUrl(SubSeq(s, m.urlFrom, m.urlTo), max_length)
                    \o SubSeq(s, m.urlTo + 1, m.end)
                    \o TruncateFrom(s, m.end + 1, max_length)
             ELSE <<s[i]>> \o TruncateFrom(s, i + 1, max_length)

truncate_markdown_links(text, max_length) ==
    TruncateFrom(text, 1, max_length)

\* The texts the truncator is applied to are written from parts: plain text, or
\* a link with its text, URL and optional title.
MaxParts  == 2
MaxUrlLen == 6
MaxLength == 4

BaseUrl == <<"h","t","t","p",":","/","/","e","x","a","m">>

PlainPart(s) == [kind |-> "plain", s |-> s, url |-> <<>>, title |-> <<>>]
LinkPart(s, u, t) == [kind |-> "link", s |-> s, url |-> u, title |-> t]

\* No title is <<>>; a title is written with its quotes and the space before it.
Titles == { <<>>, <<" ", "\"", "T", "\"">>, <<" ", "\"", "\"">> }

Parts ==
    { PlainPart(s) : s \in { <<"a", " ", "a">>, <<"[", "a", "]">>, <<"(", "a", ")">> } }
    \cup { LinkPart(s, SubSeq(BaseUrl, 1, n), t) :
             s \in { <<>>, <<"L">> },
             n \in 1..(IF MaxUrlLen < Len(BaseUrl) THEN MaxUrlLen ELSE Len(BaseUrl)),
             t \in Titles }

RECURSIVE PartsUpTo(_)
PartsUpTo(n) ==
    IF n = 0 THEN { <<>> }
    ELSE LET shorter == PartsUpTo(n - 1)
         IN  shorter \cup { Append(ps, p) : ps \in { q \in shorter : Len(q) = n - 1 },
                                            p \in Parts }

\* A part as it is written in Markdown, its URL replaced by u.
Written(part, u) ==
    IF part.kind = "plain" THEN part.s
    ELSE <<"[">> \o part.s \o <<"]", "(">> \o u \o part.title \o <<")">>

\* The Markdown text the parts make.
TextOf(parts) == JoinWith(<<>>, [i \in 1..Len(parts) |-> Written(parts[i], parts[i].url)])

TruncInit ==
    /\ tparts \in PartsUpTo(MaxParts)
    /\ tmax \in 1..MaxLength
    /\ truncated = <<>>
    /\ tpc = "start"

TruncIdle ==
    /\ tparts = <<>>
    /\ tmax = 0
    /\ truncated = <<>>
    /\ tpc = "idle"

\* truncate_markdown_links(text, max_length)
Truncate ==
    /\ UNCHANGED notTrunc
    /\ tpc = "start"
    /\ truncated' = truncate_markdown_links(TextOf(tparts), tmax)
    /\ tpc' = "done"
    /\ UNCHANGED <<tparts, tmax>>

-----------------------------------------------------------------------------
(* The browser steps: fetch_with_playwright (lines 47-101) and             *)
(* render_local_html (lines 104-121), statement by statement.              *)
(*                                                                         *)
(* fpc is the call about to be made.  held is the set of resources that    *)
(* are open: "playwright" (the driver started by sync_playwright()),       *)
(* "browser", "context" and "page".  Every call can raise; pending is the  *)
(* exception in flight.                                                    *)

WAIT_UNTIL_CHOICES == {"load", "domcontentloaded", "networkidle", "commit"}

\* line 87: the load conditions after which networkidle is waited for as well
FasterLoadStates == {"commit", "domcontentloaded", "load"}

fetchArgs == <<fn, wait_until, wait_for>>

FetchInit ==
    /\ fn \in {"fetch_with_playwright", "render_local_html"}
    /\ wait_until \in WAIT_UNTIL_CHOICES
    /\ wait_for \in (IF fn = "fetch_with_playwright" THEN BOOLEAN ELSE {FALSE})
    /\ fpc = "sync_playwright"
    /\ held = {}
    /\ pending = "none"
    /\ rendered_html = "unset"
    /\ result = "unset"
    /\ timed_out = {}
    /\ errors = {}
    /\ swallowed = {}
    /\ fstatus = -1
    /\ fmessage = "none"

FetchIdle ==
    /\ fn = "none"
    /\ wait_until = "networkidle"
    /\ wait_for = FALSE
    /\ fpc = "idle"
    /\ held = {}
    /\ pending = "none"
    /\ rendered_html = "unset"
    /\ result = "unset"
    /\ timed_out = {}
    /\ errors = {}
    /\ swallowed = {}
    /\ fstatus = -1
    /\ fmessage = "none"

\* The call at fpc returns; control moves to next.
Proceed(next) ==
    /\ fpc' = next
    /\ UNCHANGED <<fetchArgs, pending, timed_out, errors, swallowed, result,
                   fstatus, fmessage>>

\* The call at fpc raises kind ("timeout" is PlaywrightTimeout, "error" any
\* other exception); control moves to next.  An exception raised while another
\* is in flight replaces it.
Raise(kind, next) ==
    /\ fpc' = next
    /\ pending' = kind
    /\ timed_out' = IF kind = "timeout" THEN timed_out \cup {fpc} ELSE timed_out
    /\ errors' = IF kind = "error" THEN errors \cup {fpc} ELSE errors
    /\ UNCHANGED <<fetchArgs, swallowed, result, fstatus, fmessage>>

\* The first statement of the finally block of each function.
Finally == IF fn = "fetch_with_playwright" THEN "context.close" ELSE "browser.close"

\* lines 57, 111: with sync_playwright() as p
EnterPlaywright ==
    /\ UNCHANGED notFetch
    /\ fpc = "sync_playwright"
    /\ held' = held \cup {"playwright"}
    /\ Proceed("launch")
    /\ UNCHANGED rendered_html

\* lines 66, 112: p.chromium.launch(...), before the try
Launch ==
    /\ UNCHANGED notFetch
    /\ fpc = "launch"
    /\ \/ /\ held' = held \cup {"browser"}
          /\ Proceed(IF fn = "fetch_with_playwright" THEN "new_context" ELSE "new_page")
       \/ /\ \E kind \in {"timeout", "error"} : Raise(kind, "exit_with")
          /\ UNCHANGED held
    /\ UNCHANGED rendered_html

\* lines 69-74: browser.new_context(...), before the try
NewContext ==
    /\ UNCHANGED notFetch
    /\ fpc = "new_context"
    /\ \/ /\ held' = held \cup {"context"}
          /\ Proceed("new_page")
       \/ /\ Raise("error", "exit_with")
          /\ UNCHANGED held
    /\ UNCHANGED rendered_html

\* line 76: context.new_page(); line 113: browser.new_page(); before the try
NewPage ==
    /\ UNCHANGED notFetch
    /\ fpc = "new_page"
    /\ \/ /\ held' = held \cup {"page"}
          /\ Proceed(IF fn = "fetch_with_playwright" THEN "add_init_script"
                                                     ELSE "set_content")
       \/ /\ Raise("error", "exit_with")
          /\ UNCHANGED held
    /\ UNCHANGED rendered_html

\* lines 79-81: page.add_init_script(...), before the try
AddInitScript ==
    /\ UNCHANGED notFetch
    /\ fpc = "add_init_script"
    /\ \/ Proceed("goto")
       \/ Raise("error", "exit_with")
    /\ UNCHANGED <<held, rendered_html>>

\* line 84: page.goto(url, timeout, wait_until), inside the try
Goto ==
    /\ UNCHANGED notFetch
    /\ fpc = "goto"
    /\ \/ Proceed(IF wait_until \in FasterLoadStates THEN "wait_for_load_state"
                  ELSE IF wait_for THEN "wait_for_selector"
                  ELSE "content")
       \/ \E kind \in {"timeout", "error"} : Raise(kind, Finally)
    /\ UNCHANGED <<held, rendered_html>>

\* A plausible slip: the inner handler is missing, the timeout leaves the try.
WaitForLoadStateUnguarded ==
    /\ UNCHANGED notFetch
    /\ fpc = "wait_for_load_state"
    /\ \/ Proceed(IF wait_for THEN "wait_for_selector" ELSE "content")
       \/ \E kind \in {"timeout", "error"} : Raise(kind, Finally)
    /\ UNCHANGED <<held, rendered_html>>

\* lines 88-91: page.wait_for_load_state("networkidle"); except PlaywrightTimeout: pass
WaitForLoadState ==
    /\ UNCHANGED notFetch
    /\ fpc = "wait_for_load_state"
    /\ \/ Proceed(IF wait_for THEN "wait_for_selector" ELSE "content")
       \/ /\ fpc' = (IF wait_for THEN "wait_for_selector" ELSE "content")
          /\ timed_out' = timed_out \cup {fpc}
          /\ swallowed' = swallowed \cup {fpc}
          /\ UNCHANGED <<fetchArgs, pending, errors, result, fstatus, fmessage>>
       \/ Raise("error", Finally)
    /\ UNCHANGED <<held, rendered_html>>

\* lines 93-94: page.wait_for_selector(wait_for, timeout)
WaitForSelector ==
    /\ UNCHANGED notFetch
    /\ fpc = "wait_for_selector"
    /\ \/ Proceed("content")
       \/ \E kind \in {"timeout", "error"} : Raise(kind, Finally)
    /\ UNCHANGED <<held, rendered_html>>

\* line 116: page.set_content(html_content, timeout, wait_until), inside the try
SetContent ==
    /\ UNCHANGED notFetch
    /\ fpc = "set_content"
    /\ \/ Proceed("content")
       \/ \E kind \in {"timeout", "error"} : Raise(kind, Finally)
    /\ UNCHANGED <<held, rendered_html>>

\* lines 96, 117: html = page.content() / rendered_html = page.content()
PageContent ==
    /\ UNCHANGED notFetch
    /\ fpc = "content"
    /\ \/ /\ rendered_html' = "page"
          /\ Proceed(Finally)
       \/ /\ Raise("error", Finally)
          /\ UNCHANGED rendered_html
    /\ UNCHANGED held

\* line 98: context.close() in the finally block; closing a context closes its
\* pages.  When it raises, browser.close() on the next line is not reached.
CloseContext ==
    /\ UNCHANGED notFetch
    /\ fpc = "context.close"
    /\ \/ /\ held' = held \ {"context", "page"}
          /\ Proceed("browser.close")
       \/ /\ Raise("error", "exit_with")
          /\ UNCHANGED held
    /\ UNCHANGED rendered_html

\* lines 99, 119: browser.close() in the finally block; closing a browser closes
\* its contexts and pages.
CloseBrowser ==
    /\ UNCHANGED notFetch
    /\ fpc = "browser.close"
    /\ \/ /\ held' = held \ {"browser", "context", "page"}
          /\ Proceed("exit_with")
       \/ /\ Raise("error", "exit_with")
          /\ UNCHANGED held
    /\ UNCHANGED rendered_html

\* A plausible slip: the driver is used without the with statement, so leaving
\* the function stops nothing.
LeaveWithoutStopping ==
    /\ UNCHANGED notFetch
    /\ fpc = "exit_with"
    /\ held' = held \ {"playwright"}
    /\ Proceed(IF pending = "none" THEN "return" ELSE "except")
    /\ UNCHANGED rendered_html

\* The end of the with block (lines 57, 111), on every way out of it: the
\* context manager stops the Playwright driver, and the driver closes the
\* browsers it launched, with their contexts and pages.
ExitPlaywright ==
    /\ UNCHANGED notFetch
    /\ fpc = "exit_with"
    /\ held' = {}
    /\ Proceed(IF pending = "none" THEN "return" ELSE "except")
    /\ UNCHANGED rendered_html

\* lines 101, 121: return html / return rendered_html
ReturnHtml ==
    /\ UNCHANGED notFetch
    /\ fpc = "return"
    /\ fpc' = "returned"
    /\ result' = rendered_html
    /\ UNCHANGED <<fetchArgs, held, pending, rendered_html, timed_out, errors, swallowed,
                   fstatus, fmessage>>

\* main, lines 414-422: PlaywrightTimeout prints the page-load-timeout message,
\* anything else the generic one; both return 1.
MainHandler ==
    /\ UNCHANGED notFetch
    /\ fpc = "except"
    /\ fpc' = "handled"
    /\ fmessage' = (IF pending = "timeout" THEN "timeout" ELSE "other")
    /\ fstatus' = 1
    /\ UNCHANGED <<fetchArgs, held, pending, rendered_html, result, timed_out, errors,
                   swallowed>>

FetchNext ==
    \/ EnterPlaywright
    \/ Launch
    \/ NewContext
    \/ NewPage
    \/ AddInitScript
    \/ Goto
    \/ WaitForLoadState
    \/ WaitForSelector
    \/ SetContent
    \/ PageContent
    \/ CloseContext
    \/ CloseBrowser
    \/ ExitPlaywright
    \/ ReturnHtml
    \/ MainHandler

-----------------------------------------------------------------------------
(* Specifications                                                          *)

Init == MainInit /\ KindIdle /\ CleanIdle /\ NormIdle /\ TruncIdle /\ FetchIdle
Next == MainNext
Spec == Init /\ [][Next]_vars

InitKind == KindInit /\ MainIdle /\ CleanIdle /\ NormIdle /\ TruncIdle /\ FetchIdle
NextKind == Classify
SpecKind == InitKind /\ [][NextKind]_vars

InitClean == CleanInit /\ MainIdle /\ KindIdle /\ NormIdle /\ TruncIdle /\ FetchIdle
NextClean == Extract
SpecClean == InitClean /\ [][NextClean]_vars

InitNorm == NormInit /\ MainIdle /\ KindIdle /\ CleanIdle /\ TruncIdle /\ FetchIdle
NextNorm == NormNext
SpecNorm == InitNorm /\ [][NextNorm]_vars

InitTrunc == TruncInit /\ MainIdle /\ KindIdle /\ CleanIdle /\ NormIdle
             /\ FetchIdle
NextTrunc == Truncate
SpecTrunc == InitTrunc /\ [][NextTrunc]_vars

InitFetch == FetchInit /\ MainIdle /\ KindIdle /\ CleanIdle /\ NormIdle /\ TruncIdle
NextFetch == FetchNext
SpecFetch == InitFetch /\ [][NextFetch]_vars

-----------------------------------------------------------------------------
(* Claims about main() (Spec)                                              *)

\* C1: when the input's ContentKind is MARKDOWN or PLAIN_TEXT, the extractor and
\* the converter never run and the text handed to the output writer is exactly
\* the text read from the input.
C1_TextPassesThrough ==
    (input_type \in {"FILE", "URL"}
        /\ ContentKindOf(input_arg) \in {"MARKDOWN", "PLAIN_TEXT"})
    => /\ "extractor" \notin ran
       /\ "converter" \notin ran
       /\ (pc \in {"write", "done"} /\ output # NoText => output = source_text)

\* The Markdown half of C1, which the code does keep: Markdown input reaches the
\* writer as it was read, with neither extractor nor converter run.
MarkdownPassesThrough ==
    (input_type \in {"FILE", "URL"} /\ ContentKindOf(input_arg) = "MARKDOWN")
    => /\ "extractor" \notin ran
       /\ "converter" \notin ran
       /\ (pc \in {"write", "done"} /\ output # NoText => output = source_text)

\* C9: detect_input_type applies its rules in order, first match wins: absent or
\* "-" is STDIN; an http:// or https:// prefix is URL; an existing path is FILE;
\* otherwise a dotted name not starting with "/" is URL; otherwise the invocation
\* fails with the unresolvable-input error.
C9_ClassifierOrder ==
    pc # "start" =>
        LET stdin    == input_arg = None \/ input_arg = <<"-">>
            scheme   == \E n \in {7, 8} :
                            /\ Len(input_arg) >= n
                            /\ SubSeq(input_arg, 1, n) \in {HttpScheme, HttpsScheme}
            dotted   == \E i \in 1..Len(input_arg) : input_arg[i] = "."
            absolute == Len(input_arg) >= 1 /\ input_arg[1] = "/"
        IN  /\ stdin => input_type = "STDIN"
            /\ (~stdin /\ scheme) => input_type = "URL"
            /\ (~stdin /\ ~scheme /\ path_exists) => input_type = "FILE"
            /\ (~stdin /\ ~scheme /\ ~path_exists /\ dotted /\ ~absolute)
                   => input_type = "URL"
            /\ (~stdin /\ ~scheme /\ ~path_exists /\ ~(dotted /\ ~absolute))
                   => /\ input_type = "unset"
                      /\ pc = "done"
                      /\ status = 1
                      /\ message = "value"

\* C9's case: a dotted name that exists on disk has been classified as a file.
C9_Witness ==
    /\ pc # "start"
    /\ input_arg = <<"a",".","m","d">>
    /\ path_exists
    /\ input_type = "FILE"

-----------------------------------------------------------------------------
(* Claims about the extension classifiers (SpecKind)                       *)

\* name ends with ext, compared without regard to case
SuffixIgnoringCase(name, ext) ==
    /\ Len(name) >= Len(ext)
    /\ \A i \in 1..Len(ext) : LowerChar(name[Len(name) - Len(ext) + i]) = ext[i]

HasExtensionIn(name, exts) == \E ext \in exts : SuffixIgnoringCase(name, ext)

-----------------------------------------------------------------------------
(* Claims about clean_html (SpecClean)                                     *)

\* The class list, lower-cased and joined, contains one of the patterns.
ClassListContains(cls, patterns) ==
    /\ cls # <<>>
    /\ \E p \in patterns : Contains(lower(JoinWith(<<" ">>, cls)), p)

\* C2: with no explicit selector the returned markup holds no script, style,
\* noscript, iframe, svg, nav, aside, header or footer element, no comment, and
\* no element whose role is navigation, complementary or menu.
C2_NoBoilerplate ==
    (cpc = "done" /\ ~Truthy(selector)) =>
        \A i \in 1..Len(cleaned.nodes) :
            /\ cleaned.nodes[i].tag \notin
                   {"script", "style", "noscript", "iframe", "svg",
                    "nav", "aside", "header", "footer", "#comment"}
            /\ cleaned.nodes[i].role \notin {"navigation", "complementary", "menu"}

\* C2's case: a document with a comment and a role=menu element was extracted
\* without a selector and something was returned.
C2_Witness ==
    /\ cpc = "done"
    /\ selector.kind = "none"
    /\ \E i \in 1..Len(soup) : soup[i].tag = "#comment"
    /\ \E i \in 1..Len(soup) : soup[i].role = "menu"
    /\ Len(cleaned.nodes) > 0

\* C3: with no explicit selector the returned subtree is the first candidate that
\* exists in the cleaned document: main, else the first article, else role=main,
\* else a div whose class list contains content, article, post, entry or main,
\* else body, else the whole document.
C3_CandidatePriority ==
    (cpc = "done" /\ ~Truthy(selector)) =>
        LET doc     == Cleanup(soup)
            main    == First(TagIdx(doc, {"main"}))
            article == First(TagIdx(doc, {"article"}))
            role    == First(RoleIdx(doc, {"main"}))
            div     == First({ i \in 1..Len(doc) :
                                 /\ doc[i].tag = "div"
                                 /\ ClassListContains(doc[i].cls, ContentPatterns) })
            body    == First(TagIdx(doc, {"body"}))
            chosen  == IF main # 0 THEN main
                       ELSE IF article # 0 THEN article
                       ELSE IF role # 0 THEN role
                       ELSE IF div # 0 THEN div
                       ELSE body
        IN  cleaned.nodes = (IF chosen = 0 THEN doc ELSE SubtreeOf(doc, chosen))

\* C4: with no explicit selector no element whose class list, lower-cased and
\* joined, contains a sidebar pattern appears in the output.
C4_NoSidebarClasses ==
    (cpc = "done" /\ ~Truthy(selector)) =>
        \A i \in 1..Len(cleaned.nodes) :
            ~ClassListContains(cleaned.nodes[i].cls, SidebarPatterns)

NoSelectorNeverFails_Witness ==
    /\ cpc = "done"
    /\ selector.kind = "none"
    /\ \E i \in 1..Len(soup) : soup[i].tag = "main"
    /\ \A i \in 1..Len(cleaned.nodes) : cleaned.nodes[i].tag # "main"
    /\ cleaned.error = "none"

-----------------------------------------------------------------------------
(* Claims about the normalizer (SpecNorm)                                  *)

Blank == {" ", "\t", "\r"}

\* C6: the normalizer's output ends with exactly one line break and, before it,
\* has no line ending in whitespace, no two consecutive blank lines and no
\* leading or trailing blank line.  (An input with nothing but whitespace gives
\* the line break alone.)
C6_NormalForm ==
    npc # "start" =>
        LET y == normalized
            n == Len(normalized)
        IN  /\ n >= 1
            /\ y[n] = "\n"
            /\ n >= 2 => y[n - 1] \notin Blank \cup {"\n"}
            /\ n >= 2 => y[1] # "\n"
            /\ \A i \in 2..n : y[i] = "\n" => y[i - 1] \notin Blank
            /\ \A i \in 1..(n - 2) : ~(y[i] = "\n" /\ y[i + 1] = "\n" /\ y[i + 2] = "\n")

\* C6's case: a text with two consecutive blank lines was normalized.
C6_Witness ==
    /\ npc = "once"
    /\ Contains(markdown, <<"\n", "\n", "\n">>)
    /\ Len(normalized) > 1

\* C7: normalizing the normalizer's output changes nothing.
C7_Idempotent == npc = "twice" => twice = normalized

\* C7's case: a text whose first line is indented was normalized twice.
C7_Witness ==
    /\ npc = "twice"
    /\ Len(markdown) > 1
    /\ markdown[1] = " "
    /\ Len(normalized) > 1
    /\ normalized # markdown

-----------------------------------------------------------------------------
(* Claims about the link truncator (SpecTrunc)                             *)

\* C8: every inline link is treated on its own: a URL longer than max_length
\* becomes its first max_length - 1 characters and one ellipsis, a URL of at most
\* max_length characters stays, and link text, titles and the text outside links
\* are unchanged.
C8_LinksTruncated ==
    tpc = "done" =>
        truncated =
            JoinWith(<<>>,
                [i \in 1..Len(tparts) |->
                    LET u == tparts[i].url
                    IN  Written(tparts[i],
                                IF Len(u) <= tmax THEN u
                                ELSE [k \in 1..tmax |->
                                        IF k < tmax THEN u[k] ELSE Ellipsis])])

\* C8's case: a text with a short link and a long titled link was truncated, and
\* only the long URL changed.
C8_Witness ==
    /\ tpc = "done"
    /\ Len(tparts) = 2
    /\ tparts[1].kind = "link" /\ Len(tparts[1].url) <= tmax
    /\ tparts[2].kind = "link" /\ Len(tparts[2].url) > tmax
    /\ tparts[2].title # <<>>
    /\ truncated # TextOf(tparts)

-----------------------------------------------------------------------------
(* Claims about the declared content-type (Spec)                           *)

\* the header contains "markdown", compared without regard to case
DeclaresMarkdown(ct) ==
    /\ ct # None
    /\ \E i \in 1..Len(ct) :
          /\ i + 7 <= Len(ct)
          /\ [k \in 1..8 |-> LowerChar(ct[i + k - 1])]
                = <<"m","a","r","k","d","o","w","n">>

\* the header is text/plain, with or without a qualifier after ";"
DeclaresPlainText(ct) ==
    /\ ct # None
    /\ Len(ct) >= 10
    /\ [k \in 1..10 |-> LowerChar(ct[k])] = <<"t","e","x","t","/","p","l","a","i","n">>
    /\ (Len(ct) = 10 \/ ct[11] = ";")

\* a URL whose name has neither a Markdown nor a generic-text extension has been
\* fetched
OtherUrlFetched ==
    /\ input_type = "URL"
    /\ ContentKindOf(url) = "HTML"
    /\ pc \in {"convert", "write", "done"}
    /\ content # NoText

\* C11: for a URL whose name has neither a Markdown nor a generic-text extension,
\* a declared content-type containing "markdown" or equal to text/plain makes the
\* body pass through unconverted (the result is flagged as text, neither
\* extractor nor converter runs, the writer gets the body as it was read); an
\* absent or empty content-type does not.
C11_ContentTypeDecides ==
    OtherUrlFetched =>
        /\ (DeclaresMarkdown(content_type) \/ DeclaresPlainText(content_type))
              => /\ is_markdown
                 /\ content = source_text
                 /\ "extractor" \notin ran
                 /\ "converter" \notin ran
                 /\ (output # NoText => output = source_text)
        /\ content_type \in {None, <<>>} => ~is_markdown

\* What the code does instead: for such a URL the header is never consulted, and
\* the result is never flagged as text, whatever the server declares.
ContentTypeNeverConsulted ==
    OtherUrlFetched => ~is_markdown

\* A server declares text/markdown for such a URL and the fetch has returned.
MarkdownDeclaredForOtherUrl ==
    /\ OtherUrlFetched
    /\ DeclaresMarkdown(content_type)

-----------------------------------------------------------------------------
(* Claims about main()'s error handling (Spec)                             *)

\* the order of main()'s stages
StageRank(p) ==
    CASE p = "start"   -> 0
      [] p = "fetch"   -> 1
      [] p = "convert" -> 2
      [] p = "write"   -> 3
      [] OTHER         -> 4

\* main() has returned exactly when a status is set; a non-zero status comes with
\* a printed message, status 0 comes only after the writer completed, and nothing
\* is written when the failure came before the write stage.
ReturnsAsClaimed ==
    /\ (pc = "done") = (status \in {0, 1})
    /\ pc # "done" => status = -1 /\ written = NoText
    /\ status = 1 => message # "none"
    /\ status = 0 => /\ message = "none"
                     /\ "writer" \in ran
                     /\ written = output
    /\ (status = 1 /\ "writer" \notin ran) => written = NoText

\* C12: every invocation of main in which a stage fails prints a message and
\* returns a non-zero status without re-running any stage (every step moves to a
\* later stage, and a failure moves straight to the return); main returns 0 only
\* after the output writer completed, and nothing is written when the
\* invocation fails before the write stage.
C12_FailuresReturnNonZero ==
    /\ []ReturnsAsClaimed
    /\ [][ /\ StageRank(pc') > StageRank(pc)
           /\ message' # "none" => pc' = "done" /\ status' = 1 ]_vars

\* a page-load timeout ended the invocation: message printed, status 1, nothing
\* written
C12_Witness ==
    /\ pc = "done"
    /\ status = 1
    /\ message = "timeout"
    /\ "browser" \in ran
    /\ written = NoText

-----------------------------------------------------------------------------
(* Claims about --raw and --no-js (Spec)                                   *)

\* C15: with the raw-output flag set, the text handed to the output writer is
\* exactly the content returned by the fetch/render step; the extractor, the
\* converter and the normalizer never run, so a selector is ignored and no
\* selector-not-found error occurs.
C15_RawBypassesConversion ==
    raw => /\ ran \cap {"extractor", "converter", "normalizer"} = {}
           /\ (pc \in {"write", "done"} /\ content # NoText => output = content)
           /\ (status = 0 => written = content)
           /\ (input_type # "unset" => message # "value")

\* --raw with a selector that matches nothing, on rendered content: the rendered
\* page was written as it is.
C15_Witness ==
    /\ raw
    /\ selector_hit = "miss"
    /\ status = 0
    /\ content.via = <<"render">>
    /\ written = content

\* the name given on the command line has a Markdown extension
MarkdownNamed ==
    input_arg # None /\ HasExtensionIn(input_arg, markdown_extensions)

\* C17: in every invocation where --no-js is set, for each input kind, and in
\* every invocation whose input has a Markdown extension, the headless browser
\* is never launched: the content is the text of the HTTP GET, the file read or
\* standard input, as it was read.
C17_NoBrowser ==
    (no_js \/ MarkdownNamed)
        => /\ "browser" \notin ran
           /\ content = source_text
           /\ content # NoText => ran \cap {"http", "file", "stdin"} # {}

\* --no-js on standard input: the content was read and handed on unrendered.
C17_Witness ==
    /\ no_js
    /\ input_type = "STDIN"
    /\ "stdin" \in ran
    /\ content # NoText
    /\ status = 0

\* --no-js on a URL and on a local file, and a Markdown name without --no-js
C17_WitnessUrl ==
    no_js /\ input_type = "URL" /\ ~MarkdownNamed /\ status = 0
C17_WitnessFile ==
    no_js /\ input_type = "FILE" /\ ~MarkdownNamed /\ status = 0
C17_WitnessMarkdown ==
    ~no_js /\ MarkdownNamed /\ input_type = "URL" /\ status = 0

-----------------------------------------------------------------------------
(* Claims about the lines the normalizer keeps (SpecNorm)                  *)

NonBlank(line) == \E i \in 1..Len(line) : line[i] \notin Whitespace

\* the non-blank lines of a text, in order, each without its trailing whitespace
RightTrimmedLines(text) ==
    LET kept == SelectSeq(Split(text), NonBlank)
    IN  [i \in 1..Len(kept) |-> rstrip(kept[i])]

\* C16: the normalizer changes non-blank lines only by removing their trailing
\* whitespace: the non-blank lines of the output are the non-blank lines of the
\* input, each right-trimmed, with the leading indentation of every line kept,
\* that of the first non-blank line included.
C16_NonBlankLinesKept ==
    npc # "start" => RightTrimmedLines(normalized) = RightTrimmedLines(markdown)

\* What the code does instead: the same, except that the first non-blank line
\* also loses its leading whitespace.
FirstLineLosesIndentation ==
    npc # "start" =>
        LET before == RightTrimmedLines(markdown)
            after  == RightTrimmedLines(normalized)
        IN  /\ Len(after) = Len(before)
            /\ \A i \in 1..Len(before) :
                  after[i] = IF i = 1 THEN lstrip(before[i]) ELSE before[i]

\* a text whose first non-blank line is indented was normalized
IndentedFirstLineNormalized ==
    /\ npc # "start"
    /\ Len(RightTrimmedLines(markdown)) >= 2
    /\ RightTrimmedLines(markdown)[1][1] = " "

-----------------------------------------------------------------------------
(* Claims about the browser steps (SpecFetch)                              *)

\* the step has exited: it returned, or its exception has left the with block
StepExited == fpc \in {"return", "returned", "except", "handled"}

AcquireCalls == {"launch", "new_context", "new_page", "add_init_script"}
ReleaseCalls == {"context.close", "browser.close"}

\* C13: in both fetch_with_playwright and render_local_html, every resource that
\* was acquired (browser, context, page) is released by the time the step
\* exits, on every exit path: normal return, a timeout or other error in
\* navigation, waiting or content retrieval, an error while acquiring a later
\* resource, and an error raised while releasing an earlier one.  (When the try
\* block was entered and the finally block ran without raising, the browser,
\* its context and its page are already closed when the with block is left.)
C13_ResourcesReleased ==
    /\ StepExited => held = {}
    /\ (fpc = "exit_with"
           /\ (timed_out \cup errors) \cap AcquireCalls = {}
           /\ errors \cap ReleaseCalls = {})
       => held \subseteq {"playwright"}

\* context.close() raised in the finally block, so browser.close() was never
\* called, and the step has exited.
C13_Witness ==
    /\ fpc = "handled"
    /\ "context.close" \in errors
    /\ held = {}

\* the other exit paths of C13
C13_WitnessReturn ==
    fpc = "returned" /\ result = "page" /\ held = {}
C13_WitnessNavigation ==
    fpc = "handled" /\ "goto" \in timed_out /\ held = {}
C13_WitnessAcquire ==
    fpc = "handled" /\ "new_context" \in errors /\ held = {}
C13_WitnessRender ==
    fpc = "handled" /\ fn = "render_local_html" /\ "new_page" \in errors /\ held = {}

\* The timeout of the secondary network-idle wait, and only that one, is
\* swallowed; the wait is made only after commit, domcontentloaded or load; when
\* nothing else fails the step returns the page content.
SecondaryTimeoutSwallowed ==
    /\ swallowed = timed_out \cap {"wait_for_load_state"}
    /\ (fpc = "wait_for_load_state" \/ "wait_for_load_state" \in timed_out)
          => fn = "fetch_with_playwright" /\ wait_until \in FasterLoadStates
    /\ (fpc \in {"returned", "handled"}
           /\ timed_out \subseteq {"wait_for_load_state"} /\ errors = {})
          => fpc = "returned" /\ result = "page"

\* a timeout was raised somewhere else than in the secondary wait, and main()
\* has returned
OtherTimeoutHandled ==
    /\ fpc \in {"returned", "handled"}
    /\ timed_out \ {"wait_for_load_state"} # {}

\* C14 as stated: a timeout of the secondary network-idle wait is swallowed and
\* the step goes on to return the page content; a timeout at any other point
\* abandons the step, returns no content and surfaces as the page-load-timeout
\* error with non-zero status; the secondary wait is the only place where a
\* timeout is swallowed.
C14_TimeoutsSurface ==
    /\ SecondaryTimeoutSwallowed
    /\ OtherTimeoutHandled => /\ fpc = "handled"
                              /\ result = "unset"
                              /\ fstatus = 1
                              /\ fmessage = "timeout"

\* C14, amended: as above, except that when releasing the context or the browser
\* raises in the finally block after the timeout, that error replaces the
\* timeout and main() prints the generic message; the step still returns no
\* content and the status is still non-zero.
C14_TimeoutsSurfaceUnlessReleaseFails ==
    /\ SecondaryTimeoutSwallowed
    /\ OtherTimeoutHandled => /\ fpc = "handled"
                              /\ result = "unset"
                              /\ fstatus = 1
                              /\ fmessage = (IF errors \cap ReleaseCalls = {}
                                             THEN "timeout" ELSE "other")

\* the secondary wait timed out, wait_for_selector then timed out too: the first
\* was swallowed, the second reached main() as a page-load timeout
C14_Witness ==
    /\ fpc = "handled"
    /\ swallowed = {"wait_for_load_state"}
    /\ "wait_for_selector" \in timed_out
    /\ fmessage = "timeout"
    /\ fstatus = 1

\* the secondary wait timed out and the step returned the page all the same
C14_WitnessSwallowed ==
    /\ fpc = "returned"
    /\ swallowed = {"wait_for_load_state"}
    /\ result = "page"

\* the navigation timed out and closing the context then raised
C14_WitnessReleaseFails ==
    /\ fpc = "handled"
    /\ "goto" \in timed_out
    /\ errors \cap ReleaseCalls # {}
    /\ fmessage = "other"

=============================================================================
